---------------------------- MODULE Spec2Model ----------------------------
(***************************************************************************)
(* Model of sakai_bot.py: the announcement store (duyurular.json), the     *)
(* href-based diff find_new_announcements and the run lifecycle main().    *)
(*                                                                         *)
(* Python values: strings are TLA+ strings; None is the reserved string    *)
(* NoneVal, which is no href, title or content of any record.  A dict is a *)
(* function from its keys to its values, so a record scraped from the page *)
(* (no "href" key) and one from the panel ("href" possibly None) differ in *)
(* their DOMAIN.                                                           *)
(***************************************************************************)
EXTENDS Integers, Sequences, FiniteSets, TLC

\* ------------------------------------------------------------------ bounds
MaxDiffLen == 2      \* longest current / previous list given to the diff
MaxRuns == 3         \* scheduler invocations of main()
MaxCurrent == 2      \* longest list the Collector returns in one run

\* ---------------------------------------------------------- Python values
NoneVal == "<None>"

\* dict.get(key): the value, or None when the key is absent
Get(ann, key) == IF key \in DOMAIN ann THEN ann[key] ELSE NoneVal

\* truth value of an Optional[str]: None and "" are falsy
Truthy(v) == v # NoneVal /\ v # ""

\* record built by fetch_from_notifications (always has the "href" key)
PanelRecord(t, c, h, ts) ==
    [title |-> t, content |-> c, href |-> h, timestamp |-> ts]

\* record built by search_page_announcements (never has the "href" key)
PageRecord(t, c, ts) ==
    [title |-> t, content |-> c, timestamp |-> ts]

\* all sequences over S of length at most n
RECURSIVE SeqsUpTo(_, _)
SeqsUpTo(S, n) ==
    IF n = 0 THEN {<<>>}
    ELSE LET shorter == SeqsUpTo(S, n - 1)
         IN  shorter \cup {Append(s, x) : s \in {t \in shorter : Len(t) = n - 1}, x \in S}

\* ------------------------------------------------- find_new_announcements
\* lines 954-961: the set built by the loop over previous
previous_hrefs_AddsFalsy(previous) ==
    {Get(previous[j], "href") : j \in 1..Len(previous)}

previous_hrefs(previous) ==
    {Get(previous[j], "href") :
        j \in {k \in 1..Len(previous) : Truthy(Get(previous[k], "href"))}}

\* line 969: the list comprehension over current
find_new_announcements_ByRecord(current, previous) ==
    LET keep(ann) == \A j \in 1..Len(previous) : previous[j] # ann
    IN  SelectSeq(current, keep)

find_new_announcements_ByTitle(current, previous) ==
    LET keep(ann) == \A j \in 1..Len(previous) :
                        previous[j]["title"] # ann["title"]
    IN  SelectSeq(current, keep)

RECURSIVE FirstOfEachHref(_, _, _)
FirstOfEachHref(current, seen, k) ==
    IF k > Len(current) THEN <<>>
    ELSE LET href == Get(current[k], "href")
         IN  IF href \in seen
             THEN FirstOfEachHref(current, seen, k + 1)
             ELSE <<current[k]>>
                  \o FirstOfEachHref(current, seen \cup {href}, k + 1)

find_new_announcements_DedupCurrent(current, previous) ==
    FirstOfEachHref(current, previous_hrefs(previous), 1)

find_new_announcements(current, previous) ==
    LET keep(ann) == Get(ann, "href") \notin previous_hrefs(previous)
    IN  SelectSeq(current, keep)


\* ------------------------------------------------------------- store file
\* json.dump(..., ensure_ascii=False, indent=2): a str becomes a JSON
\* string, None becomes null
JsonValue_NoneAsText(v) ==
    [j |-> "string", s |-> IF v = NoneVal THEN "None" ELSE v]

JsonValue(v) ==
    IF v = NoneVal THEN [j |-> "null"] ELSE [j |-> "string", s |-> v]

\* json.load: a JSON string becomes a str, null becomes None
PyValue(t) == IF t.j = "null" THEN NoneVal ELSE t.s

JsonObject(ann) == [k \in DOMAIN ann |-> JsonValue(ann[k])]

PyDict(obj) == [k \in DOMAIN obj |-> PyValue(obj[k])]

\* the text json.dump writes for a list, as the chunks it hands to f.write:
\* the opening bracket, one object per element, the closing bracket
json_dump(announcements) ==
    <<[kind |-> "["]>>
    \o [n \in 1..Len(announcements) |->
            [kind |-> "object", members |-> JsonObject(announcements[n])]]
    \o <<[kind |-> "]"]>>

\* whether the text is one complete JSON array
WellFormed(data) ==
    /\ Len(data) >= 2
    /\ data[1].kind = "["
    /\ data[Len(data)].kind = "]"
    /\ \A n \in 2..(Len(data) - 1) : data[n].kind = "object"

json_load(data) ==
    [n \in 1..(Len(data) - 2) |-> PyDict(data[n + 1].members)]

\* a store file: absent, or present with the chunks written so far
NoFile == [exists |-> FALSE, data |-> <<>>]

\* a store file holding one complete JSON document that is no array: the
\* text {} or the text null (json.load of line 910 accepts both)
EmptyObjectFile == [exists |-> TRUE, data |-> <<[kind |-> "{}"]>>]

NullFile == [exists |-> TRUE, data |-> <<[kind |-> "null"]>>]

\* lines 906-915; raised tells whether an exception leaves the function,
\* type is the Python type of the value returned (value lists its elements;
\* an empty dict and None have none)
load_saved_announcements_NoTry(file) ==
    IF ~file.exists THEN [raised |-> FALSE, value |-> <<>>, type |-> "list"]
    ELSE IF WellFormed(file.data)
         THEN [raised |-> FALSE, value |-> json_load(file.data),
               type |-> "list"]
    ELSE IF file = EmptyObjectFile
         THEN [raised |-> FALSE, value |-> <<>>, type |-> "dict"]
    ELSE IF file = NullFile
         THEN [raised |-> FALSE, value |-> <<>>, type |-> "NoneType"]
    ELSE [raised |-> TRUE, value |-> <<>>, type |-> "list"]

load_saved_announcements(file) ==
    IF ~file.exists THEN [raised |-> FALSE, value |-> <<>>, type |-> "list"]
    ELSE IF WellFormed(file.data)
         THEN [raised |-> FALSE, value |-> json_load(file.data),
               type |-> "list"]
    ELSE IF file = EmptyObjectFile
         THEN [raised |-> FALSE, value |-> <<>>, type |-> "dict"]
    ELSE IF file = NullFile
         THEN [raised |-> FALSE, value |-> <<>>, type |-> "NoneType"]
    ELSE [raised |-> FALSE, value |-> <<>>, type |-> "list"]

\* ---------------------------------------------------------------- Notifier
\* line 104
HTTP_OK == 200

\* what requests.post of line 98 does: it answers with a status code, or
\* raises a RequestException (timeout, connection error), or raises
\* something else
StatusCodes == {200, 201, 204, 301, 400, 401, 403, 404, 429, 500, 502}

Outcomes ==
    [kind : {"response"}, status_code : StatusCodes]
    \cup [kind : {"RequestException", "Exception"}, status_code : {0}]

\* lines 74-116; raised tells whether an exception leaves the function
send_telegram_notification_AnySuccess(title, content, outcome) ==
    IF outcome.kind = "response"
    THEN [raised |-> FALSE, value |-> outcome.status_code \div 100 = 2]
    ELSE [raised |-> FALSE, value |-> FALSE]

send_telegram_notification(title, content, outcome) ==
    IF outcome.kind = "response"
    THEN [raised |-> FALSE, value |-> outcome.status_code = HTTP_OK]
    ELSE [raised |-> FALSE, value |-> FALSE]

\* ------------------------------------------------------------ environment
\* lines 42-46: the four required settings, blank or set
Settings == {"", "x"}
Configs ==
    [TELEGRAM_TOKEN : Settings, TELEGRAM_CHAT_ID : Settings,
     SAKAI_USERNAME : Settings, SAKAI_PASSWORD : Settings]

\* lines 57-71
validate_configuration_NoPassword(cfg) ==
    /\ Truthy(cfg.TELEGRAM_TOKEN)
    /\ Truthy(cfg.TELEGRAM_CHAT_ID)
    /\ Truthy(cfg.SAKAI_USERNAME)

validate_configuration(cfg) ==
    /\ Truthy(cfg.TELEGRAM_TOKEN)
    /\ Truthy(cfg.TELEGRAM_CHAT_ID)
    /\ Truthy(cfg.SAKAI_USERNAME)
    /\ Truthy(cfg.SAKAI_PASSWORD)

\* datetime.now().isoformat() of a run
Timestamp(r) == ToString(r)

\* what the Collector returns for one announcement of the panel (page search
\* is off by default, line 384): get_attribute('href') of lines 623 and 696
\* gives a URL, "" (an empty href attribute) or None (line 610 stays)
Catalogue(ts) ==
    {PanelRecord("T1", "c1", "a", ts), PanelRecord("T3", "c3", "", ts),
     PanelRecord("T4", "c4", NoneVal, ts)}

\* the inputs of the diff on its own: two records share href "a"
DiffRecords ==
    {PanelRecord("T1", "c1", "a", "0"), PanelRecord("T2", "c2", "a", "0"),
     PanelRecord("T1", "c1", "b", "0"), PanelRecord("T3", "c3", "", "0"),
     PanelRecord("T4", "c4", NoneVal, "0"), PageRecord("T5", "c5", "0")}

\* ------------------------------------------------------------------ state
VARIABLES
    store,                   \* the file ANNOUNCEMENTS_FILE
    pc,                      \* position of the running main(), "idle" between runs
    run,                     \* number of invocations started so far
    config,                  \* the environment settings of the run
    driver,                  \* "none", "open" or "quit"
    previous_announcements,  \* main's local, line 998 (its elements)
    previous_type,           \* Python type of that local: "list", "dict", "NoneType"
    current_announcements,   \* main's local, line 1002
    new_announcements,       \* main's local, line 1009
    sent,                    \* iterations of the loop of line 1014 whose send is done
    calls,                   \* the Notifier calls of this run, with their results
    written,                 \* chunks of the dump handed to the file so far
    saved,                   \* this run's save_announcements: "none", "ok", "error"
    ret,                     \* main's return value: "none", "True", "False"
    exit,                    \* status of the last run: "none", "0", "1", "killed"
    raisedBy,                \* the call whose exception reached main's handler
    trace,                   \* what this run has done to the outside, in order
    storeAtStart,            \* the store when this run started
    lastRun,                 \* how the previous run ended and what it had sent
    failedStored,            \* hrefs whose send failed in a run that wrote the store
    notifiedBefore,          \* hrefs passed to the Notifier in the runs before this one
    faultless,               \* every run so far read a list and wrote what it sent
    dcur, dprev, dres, dpc,  \* the diff on its own: inputs, result, position
    stitle, scontent, soutcome, sres, spc  \* one Notifier call on its own

runVars ==
    <<store, pc, run, config, driver, previous_announcements, previous_type,
      current_announcements, new_announcements, sent, calls, written, saved,
      ret, exit, raisedBy, trace, storeAtStart, lastRun, failedStored,
      notifiedBefore, faultless>>

diffVars == <<dcur, dprev, dres, dpc>>

sendVars == <<stitle, scontent, soutcome, sres, spc>>

\* what no step of a running main() touches
otherVars == <<notifiedBefore, faultless, diffVars, sendVars>>

vars == <<runVars, diffVars, sendVars>>

\* os.getenv(..., "") of lines 42-46 before any process has loaded its settings
NotLoaded == [TELEGRAM_TOKEN |-> "", TELEGRAM_CHAT_ID |-> "",
              SAKAI_USERNAME |-> "", SAKAI_PASSWORD |-> ""]

\* the store before the first run: no file yet, or a file put there by hand
InitialStores == {NoFile, EmptyObjectFile, NullFile}

RunInit ==
    /\ store \in InitialStores
    /\ pc = "idle"
    /\ run = 0
    /\ config = NotLoaded
    /\ driver = "none"
    /\ previous_announcements = <<>>
    /\ previous_type = "list"
    /\ current_announcements = <<>>
    /\ new_announcements = <<>>
    /\ sent = 0
    /\ calls = <<>>
    /\ written = 0
    /\ saved = "none"
    /\ ret = "none"
    /\ exit = "none"
    /\ raisedBy = "none"
    /\ trace = <<>>
    /\ storeAtStart = store
    /\ lastRun = [kind |-> "none", sent |-> <<>>]
    /\ failedStored = {}
    /\ notifiedBefore = {}
    /\ faultless = TRUE

DiffIdle ==
    /\ dcur = <<>>
    /\ dprev = <<>>
    /\ dres = <<>>
    /\ dpc = "off"

SendIdle ==
    /\ stitle = ""
    /\ scontent = ""
    /\ soutcome = [kind |-> "response", status_code |-> HTTP_OK]
    /\ sres = [raised |-> FALSE, value |-> FALSE]
    /\ spc = "off"

Init == RunInit /\ DiffIdle /\ SendIdle

\* ------------------------------------------------------------------- main
\* line 1015: one Notifier call; ok is what send_telegram_notification returns
Call(title, content, ok) == [title |-> title, content |-> content, ok |-> ok]

\* lines 1004 and 1012: where main goes with the Collector's list, and with the diff
AfterFetch_Reload(current) == IF current = <<>> THEN "finally" ELSE "load"

AfterFetch(current) == IF current = <<>> THEN "finally" ELSE "diff"

AfterDiff_SaveFirst(new) == IF new # <<>> THEN "save" ELSE "finally"

AfterDiff_AlwaysSave(new) == "save"

AfterDiff(new) == IF new # <<>> THEN "send" ELSE "finally"

\* lines 1015-1019: the return value of the send is discarded, the sleep
\* follows every send
AfterSend_AbortOnFailure(ok) == IF ok THEN "sleep" ELSE "finally"

AfterSend_NoSleep(ok) == "send"

AfterSend(ok) == "sleep"

\* lines 1014-1023: the save follows the whole loop
AfterSleep_SaveInLoop(n, new) == "save"

AfterSleep(n, new) == IF n < Len(new) THEN "send" ELSE "save"

\* line 1022
all_announcements_OnlyNew(previous, new) == new

all_announcements(previous, new) == previous \o new

\* lines 935-936: the except of save_announcements swallows the error and
\* main goes on to line 1029
AfterSaveError_Propagates == "except"

AfterSaveError == "finally"

\* lines 1046-1047: sys.exit(0 if success else 1)
ExitStatus_AlwaysZero(success) == "0"

ExitStatus(success) == IF success = "True" THEN "0" ELSE "1"

\* lines 980-991: a scheduler invocation; validate_configuration decides
StartRun ==
    /\ pc = "idle"
    /\ run < MaxRuns
    /\ run' = run + 1
    /\ \E cfg \in Configs :
        /\ config' = cfg
        /\ IF validate_configuration(cfg)
           THEN /\ pc' = "get_driver"
                /\ ret' = "none"
           ELSE /\ pc' = "exit"
                /\ ret' = "False"
    /\ exit' = "none"
    /\ storeAtStart' = store
    /\ UNCHANGED <<store, driver, previous_announcements, previous_type,
                   current_announcements, new_announcements, sent, calls,
                   written, saved, raisedBy, trace, lastRun, failedStored,
                   otherVars>>

\* line 995: get_webdriver returns a driver or raises (lines 148-150)
GetDriver ==
    /\ pc = "get_driver"
    /\ \/ /\ driver' = "open"
          /\ pc' = "load"
          /\ UNCHANGED raisedBy
       \/ /\ pc' = "except"
          /\ raisedBy' = "get_webdriver"
          /\ UNCHANGED driver
    /\ trace' = Append(trace, "get_webdriver")
    /\ UNCHANGED <<store, run, config, previous_announcements, previous_type,
                   current_announcements, new_announcements, sent, calls,
                   written, saved, ret, exit, storeAtStart, lastRun,
                   failedStored, otherVars>>

\* lines 998-999: the store is read; len() of the loaded value raises a
\* TypeError when that value is None
Load ==
    /\ pc = "load"
    /\ LET r == load_saved_announcements(store)
       IN  IF r.raised
           THEN /\ pc' = "except"
                /\ raisedBy' = "load_saved_announcements"
                /\ UNCHANGED <<previous_announcements, previous_type>>
           ELSE /\ previous_announcements' = r.value
                /\ previous_type' = r.type
                /\ IF r.type = "NoneType"
                   THEN /\ pc' = "except"
                        /\ raisedBy' = "len"
                   ELSE /\ pc' = "fetch"
                        /\ UNCHANGED raisedBy
    /\ trace' = Append(trace, "read")
    /\ UNCHANGED <<store, run, config, driver, current_announcements,
                   new_announcements, sent, calls, written, saved, ret, exit,
                   storeAtStart, lastRun, failedStored, otherVars>>

\* lines 1002-1006: the Collector returns a list; or it fails, reports the
\* failure through the Notifier and returns [] (lines 393-396); or the scan
\* of the notification panel fails, fetch_from_notifications swallows the
\* exception and returns its empty list (lines 823-825), and with the page
\* search off fetch_announcements returns [] (line 389)
Fetch ==
    /\ pc = "fetch"
    /\ \/ /\ \E cur \in SeqsUpTo(Catalogue(Timestamp(run)), MaxCurrent) :
                /\ current_announcements' = cur
                /\ pc' = AfterFetch(cur)
                /\ ret' = IF cur = <<>> THEN "True" ELSE ret
          /\ trace' = Append(trace, "fetch")
          /\ UNCHANGED calls
       \/ /\ \E outcome \in Outcomes :
                calls' = Append(calls, Call("BOT ERROR", "fetch",
                    send_telegram_notification("BOT ERROR", "fetch",
                                               outcome).value))
          /\ current_announcements' = <<>>
          /\ pc' = AfterFetch(<<>>)
          /\ ret' = "True"
          /\ trace' = trace \o <<"fetch failed", "notify">>
       \/ /\ current_announcements' = <<>>
          /\ pc' = AfterFetch(<<>>)
          /\ ret' = "True"
          /\ trace' = Append(trace, "panel scan failed")
          /\ UNCHANGED calls
    /\ UNCHANGED <<store, run, config, driver, previous_announcements,
                   previous_type, new_announcements, sent, written, saved,
                   exit, raisedBy, storeAtStart, lastRun, failedStored,
                   otherVars>>

\* lines 1009-1012 and 1025-1029; the loop of line 957 over an empty dict
\* finds no element, as over an empty list
Diff ==
    /\ pc = "diff"
    /\ new_announcements' =
           find_new_announcements(current_announcements, previous_announcements)
    /\ pc' = AfterDiff(new_announcements')
    /\ ret' = IF pc' = "finally" THEN "True" ELSE ret
    /\ UNCHANGED <<store, run, config, driver, previous_announcements,
                   previous_type, current_announcements, sent, calls, written,
                   saved, exit, raisedBy, trace, storeAtStart, lastRun,
                   failedStored, otherVars>>

\* lines 1015-1018: the Notifier call for the next new record
Send ==
    /\ pc = "send"
    /\ sent < Len(new_announcements)
    /\ LET announcement == new_announcements[sent + 1]
       IN  \E outcome \in Outcomes :
             LET r == send_telegram_notification(announcement["title"],
                          announcement["content"], outcome)
             IN  /\ calls' = Append(calls,
                        Call(announcement["title"], announcement["content"],
                             r.value))
                 /\ IF r.raised
                    THEN /\ pc' = "except"
                         /\ raisedBy' = "send_telegram_notification"
                    ELSE /\ pc' = AfterSend(r.value)
                         /\ UNCHANGED raisedBy
                 /\ ret' = IF pc' = "finally" THEN "True" ELSE ret
    /\ sent' = sent + 1
    /\ trace' = Append(trace, "notify")
    /\ UNCHANGED <<store, run, config, driver, previous_announcements,
                   previous_type, current_announcements, new_announcements,
                   written, saved, exit, storeAtStart, lastRun, failedStored,
                   otherVars>>

\* line 1019
Sleep ==
    /\ pc = "sleep"
    /\ pc' = AfterSleep(sent, new_announcements)
    /\ trace' = Append(trace, "sleep")
    /\ UNCHANGED <<store, run, config, driver, previous_announcements,
                   previous_type, current_announcements, new_announcements,
                   sent, calls, written, saved, ret, exit, raisedBy,
                   storeAtStart, lastRun, failedStored, otherVars>>

\* lines 1022-1023 and 920-921: previous + new raises a TypeError when
\* previous is no list; otherwise save_announcements is called with it and
\* open(..., 'w') raises and leaves the file alone, or creates / truncates it
Save ==
    /\ pc = "save"
    /\ \/ /\ previous_type # "list"
          /\ pc' = "except"
          /\ raisedBy' = "all_announcements"
          /\ UNCHANGED <<store, saved, ret, trace>>
       \/ /\ previous_type = "list"
          /\ store' = [exists |-> TRUE, data |-> <<>>]
          /\ pc' = "write"
          /\ trace' = Append(trace, "open")
          /\ UNCHANGED <<saved, ret, raisedBy>>
       \/ /\ previous_type = "list"
          /\ saved' = "error"
          /\ pc' = AfterSaveError
          /\ ret' = IF pc' = "finally" THEN "True" ELSE ret
          /\ trace' = Append(trace, "open")
          /\ UNCHANGED <<store, raisedBy>>
    /\ written' = 0
    /\ UNCHANGED <<run, config, driver, previous_announcements, previous_type,
                   current_announcements, new_announcements, sent, calls, exit,
                   storeAtStart, lastRun, failedStored, otherVars>>

\* hrefs of the records of this run whose Notifier call returned False
FailedHrefs ==
    {Get(new_announcements[k], "href") :
        k \in {m \in 1..sent : m <= Len(calls) /\ ~calls[m].ok
                               /\ Truthy(Get(new_announcements[m], "href"))}}

\* line 922 inside the with block of line 921: json.dump hands the text to
\* the file chunk by chunk; the dump completes and the file is closed, or a
\* write raises and the except of line 935 swallows it
Write ==
    /\ pc = "write"
    /\ LET doc == json_dump(all_announcements(previous_announcements,
                                              new_announcements))
       IN  \/ /\ written < Len(doc)
              /\ store' = [store EXCEPT !.data = Append(@, doc[written + 1])]
              /\ written' = written + 1
              /\ UNCHANGED <<pc, saved, ret, failedStored>>
           \/ /\ written = Len(doc)
              /\ saved' = "ok"
              /\ failedStored' = failedStored \cup FailedHrefs
              /\ pc' = "finally"
              /\ ret' = "True"
              /\ UNCHANGED <<store, written>>
           \/ /\ written < Len(doc)
              /\ saved' = "error"
              /\ pc' = AfterSaveError
              /\ ret' = IF pc' = "finally" THEN "True" ELSE ret
              /\ UNCHANGED <<store, written, failedStored>>
    /\ UNCHANGED <<run, config, driver, previous_announcements, previous_type,
                   current_announcements, new_announcements, sent, calls, exit,
                   raisedBy, trace, storeAtStart, lastRun, otherVars>>

\* lines 1031-1034
Except ==
    /\ pc = "except"
    /\ \E outcome \in Outcomes :
          calls' = Append(calls, Call("BOT ERROR", "unexpected",
              send_telegram_notification("BOT ERROR", "unexpected",
                                         outcome).value))
    /\ ret' = "False"
    /\ pc' = "finally"
    /\ trace' = Append(trace, "notify")
    /\ UNCHANGED <<store, run, config, driver, previous_announcements,
                   previous_type, current_announcements, new_announcements,
                   sent, written, saved, exit, raisedBy, storeAtStart,
                   lastRun, failedStored, otherVars>>

\* lines 1037-1039: if driver: driver.quit()
DriverAfterFinally_Leak(d) == d

DriverAfterFinally(d) == IF d = "open" THEN "quit" ELSE d

\* lines 1036-1042
Finally ==
    /\ pc = "finally"
    /\ driver' = DriverAfterFinally(driver)
    /\ trace' = IF driver' = "quit" THEN Append(trace, "quit") ELSE trace
    /\ pc' = "exit"
    /\ UNCHANGED <<store, run, config, previous_announcements, previous_type,
                   current_announcements, new_announcements, sent, calls,
                   written, saved, ret, exit, raisedBy, storeAtStart, lastRun,
                   failedStored, otherVars>>

\* the hrefs this run has passed to the Notifier so far (lines 1014-1018)
NotifiedHrefs ==
    {Get(new_announcements[k], "href") : k \in 1..sent} \ {NoneVal}

\* this run read a store that json.load does not turn into a list (lines
\* 910-915), or it sent records and its write did not complete (lines
\* 1014-1023, 920-936)
RunFault ==
    \/ /\ \E n \in 1..Len(trace) : trace[n] = "read"
       /\ storeAtStart.exists
       /\ ~WellFormed(storeAtStart.data)
    \/ sent >= 1 /\ saved # "ok"

\* the process is gone: its locals and module globals with it
ProcessGone ==
    /\ pc' = "idle"
    /\ config' = NotLoaded
    /\ driver' = "none"
    /\ previous_announcements' = <<>>
    /\ previous_type' = "list"
    /\ current_announcements' = <<>>
    /\ new_announcements' = <<>>
    /\ sent' = 0
    /\ calls' = <<>>
    /\ written' = 0
    /\ saved' = "none"
    /\ ret' = "none"
    /\ raisedBy' = "none"
    /\ trace' = <<>>
    /\ notifiedBefore' = notifiedBefore \cup NotifiedHrefs
    /\ faultless' = (faultless /\ ~RunFault)

\* lines 1046-1047
Exit ==
    /\ pc = "exit"
    /\ exit' = ExitStatus(ret)
    /\ lastRun' = [kind |-> "returned", sent |-> <<>>]
    /\ ProcessGone
    /\ UNCHANGED <<store, run, storeAtStart, failedStored, diffVars, sendVars>>

\* the process is killed (power loss, SIGKILL, scheduler timeout) at any
\* point of a run; nothing of main runs any more
Crash ==
    /\ pc # "idle"
    /\ exit' = "killed"
    /\ lastRun' = IF pc \in {"send", "sleep", "save"} /\ sent >= 1
                  THEN [kind |-> "killed_before_write",
                        sent |-> SubSeq(new_announcements, 1, sent)]
                  ELSE [kind |-> "killed", sent |-> <<>>]
    /\ ProcessGone
    /\ UNCHANGED <<store, run, storeAtStart, failedStored, diffVars, sendVars>>

Next ==
    \/ StartRun
    \/ GetDriver
    \/ Load
    \/ Fetch
    \/ Diff
    \/ Send
    \/ Sleep
    \/ Save
    \/ Write
    \/ Except
    \/ Finally
    \/ Exit
    \/ Crash

Spec == Init /\ [][Next]_vars

\* ------------------------------------------------------- the diff on its own
DiffInit ==
    /\ RunInit
    /\ SendIdle
    /\ dcur \in SeqsUpTo(DiffRecords, MaxDiffLen)
    /\ dprev \in SeqsUpTo(DiffRecords, MaxDiffLen)
    /\ dres = <<>>
    /\ dpc = "ready"

\* line 1009: one application of find_new_announcements
DiffApply ==
    /\ dpc = "ready"
    /\ dres' = find_new_announcements(dcur, dprev)
    /\ dpc' = "done"
    /\ UNCHANGED <<runVars, sendVars, dcur, dprev>>

DiffNext == DiffApply

SpecDiff == DiffInit /\ [][DiffNext]_vars

\* ------------------------------------------- one Notifier call on its own
NotifierTitles == {"T1", "T3", "BOT ERROR"}

NotifierContents == {"c1", "c3", "fetch"}

SendInit ==
    /\ RunInit
    /\ DiffIdle
    /\ stitle \in NotifierTitles
    /\ scontent \in NotifierContents
    /\ soutcome \in Outcomes
    /\ sres = [raised |-> FALSE, value |-> FALSE]
    /\ spc = "ready"

\* one call of send_telegram_notification
SendApply ==
    /\ spc = "ready"
    /\ sres' = send_telegram_notification(stitle, scontent, soutcome)
    /\ spc' = "done"
    /\ UNCHANGED <<runVars, diffVars, stitle, scontent, soutcome>>

SendNext == SendApply

SpecSend == SendInit /\ [][SendNext]_vars

\* ------------------------------------------------------ claims: the diff
Range(seq) == {seq[n] : n \in 1..Len(seq)}

Occurrences(seq, x) == Cardinality({n \in 1..Len(seq) : seq[n] = x})

\* the records of current at the positions K, in the order of current
Picked(current, K, result) ==
    /\ Len(result) = Cardinality(K)
    /\ \A k \in 1..Len(result) :
          \E i \in K : /\ Cardinality({j \in K : j <= i}) = k
                       /\ result[k] = current[i]

\* C1 as stated: the result is exactly the records of current whose href is
\* not an href value of previous (a record with no href, key absent or None,
\* has no href to occur there), in the order of current; it is current when
\* previous is empty and empty when current is empty.
C1_ExactlyUnseenHrefs ==
    dpc = "done" =>
        LET unseen(r) ==
                \/ Get(r, "href") = NoneVal
                \/ \A j \in 1..Len(dprev) : Get(dprev[j], "href") # Get(r, "href")
        IN  /\ Picked(dcur, {i \in 1..Len(dcur) : unseen(dcur[i])}, dres)
            /\ dprev = <<>> => dres = dcur
            /\ dcur = <<>> => dres = <<>>

\* C1 amended: the result is exactly the records of current whose href is
\* absent, None or the empty string, or does not occur among the href values
\* of previous, in the order of current and with nothing added; it is
\* current when previous is empty and empty when current is empty.
C1_ExactlyUnseenOrFalsyHrefs ==
    dpc = "done" =>
        LET unseen(r) ==
                \/ Get(r, "href") \in {NoneVal, ""}
                \/ \A j \in 1..Len(dprev) : Get(dprev[j], "href") # Get(r, "href")
        IN  /\ Picked(dcur, {i \in 1..Len(dcur) : unseen(dcur[i])}, dres)
            /\ dprev = <<>> => dres = dcur
            /\ dcur = <<>> => dres = <<>>

\* a record of current with a seen href is dropped and a later one is kept
C1_Witness ==
    /\ dpc = "done"
    /\ Len(dcur) = 2
    /\ Get(dcur[1], "href") = "a"
    /\ Get(dcur[2], "href") = "b"
    /\ \E j \in 1..Len(dprev) : Get(dprev[j], "href") = "a" /\ dprev[j] # dcur[1]
    /\ dres = <<dcur[2]>>

\* C2: every record of current with no href (key absent or value None) is in
\* the result, as often as it is in current, whatever previous holds.
C2_NoHrefAlwaysNew ==
    dpc = "done" =>
        \A i \in 1..Len(dcur) :
            Get(dcur[i], "href") = NoneVal =>
                Occurrences(dres, dcur[i]) = Occurrences(dcur, dcur[i])

\* previous holds the very same href-less record, and one with a None href
C2_Witness ==
    /\ dpc = "done"
    /\ \E i \in 1..Len(dcur) :
          /\ "href" \notin DOMAIN dcur[i]
          /\ dcur[i] \in Range(dprev)
          /\ dcur[i] \in Range(dres)
    /\ \E j \in 1..Len(dprev) :
          "href" \in DOMAIN dprev[j] /\ dprev[j]["href"] = NoneVal

\* ----------------------------------------------------- claims: the store
IsPrefix(a, b) == Len(a) <= Len(b) /\ \A n \in 1..Len(a) : a[n] = b[n]

\* the records a file holds, readable or not: its complete objects, in order
RecordsIn(file) ==
    LET objects == SelectSeq(file.data, LAMBDA t : t.kind = "object")
    IN  [n \in 1..Len(objects) |-> PyDict(objects[n].members)]

\* the file is present and its text is no complete JSON document: neither
\* the complete dump of the records it holds nor one other JSON value
Corrupt(file) ==
    /\ file.exists
    /\ file.data # json_dump(RecordsIn(file))
    /\ ~(Len(file.data) = 1 /\ file.data[1].kind \in {"{}", "null"})

\* the k-th Notifier call of the run was made with the k-th new record
CallsFollow(n) ==
    /\ Len(calls) >= n
    /\ \A k \in 1..n :
          /\ calls[k].title = new_announcements[k]["title"]
          /\ calls[k].content = new_announcements[k]["content"]

\* C3: when main has returned, whatever the outcome of the run, the records
\* the store held before the run are a prefix of the records it holds now.
C3_AppendOnly ==
    pc = "exit" => IsPrefix(RecordsIn(storeAtStart), RecordsIn(store))

C5_AtomicWrite ==
    pc \in {"write", "finally", "exit"} =>
        \/ store = storeAtStart
        \/ store = [exists |-> TRUE,
                    data |-> json_dump(previous_announcements \o new_announcements)]

\* C6: the store is opened for writing, or differs from what it was when the
\* run started, only when a Notifier call has been made for every new record.
C6_WriteAfterAllSends ==
    (pc = "write" \/ saved # "none" \/ (pc # "idle" /\ store # storeAtStart)) =>
        /\ new_announcements # <<>>
        /\ sent = Len(new_announcements)
        /\ Len(calls) = Len(new_announcements)
        /\ CallsFollow(Len(new_announcements))

\* the write is under way after two sends
C6_Witness ==
    /\ pc = "write"
    /\ written >= 1
    /\ store # storeAtStart
    /\ Len(new_announcements) = 2
    /\ Len(calls) = 2

\* ------------------------------------------------------ claims: delivery
\* the same announcement collected in two runs: all but the timestamp agree
SameAnnouncement(r, q) ==
    /\ r["title"] = q["title"]
    /\ r["content"] = q["content"]
    /\ Get(r, "href") = Get(q, "href")

\* the records of current that the killed previous run had already sent
SentBeforeKill ==
    {k \in 1..Len(current_announcements) :
        \E n \in 1..Len(lastRun.sent) :
            SameAnnouncement(lastRun.sent[n], current_announcements[k])}

\* C7: when a run is killed after some sends and before the store is
\* written, the store is what it was when that run started, and the next
\* run finds each of those records that is in its current list new and has
\* sent it again when it comes to its save.
C7_AtLeastOnce ==
    lastRun.kind = "killed_before_write" =>
        /\ pc = "idle" => store = storeAtStart
        /\ pc \in {"send", "sleep", "save", "write"} =>
              \A k \in SentBeforeKill :
                  current_announcements[k] \in Range(new_announcements)
        /\ pc \in {"save", "write"} =>
              /\ CallsFollow(Len(new_announcements))
              /\ \A k \in SentBeforeKill :
                    \E m \in 1..Len(calls) :
                        /\ new_announcements[m] = current_announcements[k]
                        /\ calls[m].title = current_announcements[k]["title"]
                        /\ calls[m].content = current_announcements[k]["content"]

\* the next run is about to save and has sent again a record with href "a"
C7_Witness ==
    /\ lastRun.kind = "killed_before_write"
    /\ pc = "save"
    /\ \E k \in SentBeforeKill :
          /\ current_announcements[k]["href"] = "a"
          /\ \E m \in 1..Len(calls) : new_announcements[m] = current_announcements[k]

\* the Notifier returned False for every record it was called with
AllSendsFailed ==
    \A k \in 1..Len(calls) : k <= Len(new_announcements) => ~calls[k].ok

C9_FailedNeverResent ==
    pc \in {"send", "sleep", "save"} =>
        \A k \in 1..sent : Get(new_announcements[k], "href") \notin failedStored

C11_AnyStoreContentDegrades ==
    (/\ pc = "exit"
     /\ driver = "quit"
     /\ ~storeAtStart.exists \/ ~WellFormed(storeAtStart.data)) =>
        /\ ret = "True"
        /\ current_announcements # <<>> =>
              /\ new_announcements = current_announcements
              /\ CallsFollow(Len(current_announcements))
              /\ saved # "none"

\* the Collector has been called in this run and has returned
Collected ==
    \E n \in 1..Len(trace) :
        trace[n] \in {"fetch", "fetch failed", "panel scan failed"}

\* the href values of the loaded history
HistoryHrefs ==
    {Get(previous_announcements[n], "href") :
        n \in 1..Len(previous_announcements)} \ {NoneVal}

\* no Notifier call was made for a record: at most the Collector's own
\* failure report
NoRecordCall ==
    /\ sent = 0
    /\ Len(calls) <= 1
    /\ \A k \in 1..Len(calls) : calls[k].title = "BOT ERROR"

\* C12 as stated: when main has returned from a run whose Collector returned
\* the empty list, or only records whose href is an href of the history, no
\* Notifier call was made for a record, the store was not written, and main
\* returned True.
C12_NothingNewIsNoOp ==
    (/\ pc = "exit"
     /\ Collected
     /\ \A k \in 1..Len(current_announcements) :
           Get(current_announcements[k], "href") \in HistoryHrefs) =>
        /\ NoRecordCall
        /\ saved = "none"
        /\ store = storeAtStart
        /\ ret = "True"

\* C12 amended: the same, for records whose href is non-empty and is an href
\* of the history.
C12_NothingNewWithKnownHrefsIsNoOp ==
    (/\ pc = "exit"
     /\ Collected
     /\ \A k \in 1..Len(current_announcements) :
           /\ Truthy(Get(current_announcements[k], "href"))
           /\ Get(current_announcements[k], "href") \in HistoryHrefs) =>
        /\ NoRecordCall
        /\ saved = "none"
        /\ store = storeAtStart
        /\ ret = "True"

\* a run has returned whose Collector gave one record, stored by an earlier run
C12_Witness ==
    /\ pc = "exit"
    /\ Len(current_announcements) = 1
    /\ current_announcements[1]["href"] = "a"
    /\ "a" \in HistoryHrefs
    /\ new_announcements = <<>>
    /\ calls = <<>>
    /\ ret = "True"

\* the Notifier calls of this run made for a record, in order
RecordCalls == SelectSeq(calls, LAMBDA c : c.title # "BOT ERROR")

\* what this run has done to the outside, restricted to the given events
Events(kinds) == SelectSeq(trace, LAMBDA ev : ev \in kinds)

\* C13: while the loop of line 1014 runs, the Notifier has been called for
\* the first records of the new list, one call each and in order; once the
\* loop is over the calls made for records are exactly one per new record, in
\* the order of the list, each with that record's title and content; and a
\* sleep lies between every two consecutive Notifier calls of a run.
C13_OneCallPerNewRecordWithDelay ==
    /\ pc \in {"send", "sleep"} =>
          /\ Len(calls) = sent
          /\ CallsFollow(sent)
    /\ (new_announcements # <<>>
        /\ pc \in {"save", "write", "except", "finally", "exit"}) =>
          /\ Len(RecordCalls) = Len(new_announcements)
          /\ \A k \in 1..Len(new_announcements) :
                /\ RecordCalls[k] = calls[k]
                /\ calls[k].title = new_announcements[k]["title"]
                /\ calls[k].content = new_announcements[k]["content"]
    /\ LET steps == Events({"notify", "sleep"})
       IN  \A n \in 1..(Len(steps) - 1) :
               steps[n] = "notify" => steps[n + 1] = "sleep"

\* two new records: call, sleep, call, sleep, and the save comes next
C13_Witness ==
    /\ pc = "save"
    /\ Len(new_announcements) = 2
    /\ new_announcements[1] # new_announcements[2]
    /\ Len(calls) = 2
    /\ CallsFollow(2)
    /\ Events({"notify", "sleep"}) = <<"notify", "sleep", "notify", "sleep">>

\* one of the four required settings is missing or blank
MissingSetting(cfg) ==
    \E k \in {"TELEGRAM_TOKEN", "TELEGRAM_CHAT_ID", "SAKAI_USERNAME",
              "SAKAI_PASSWORD"} : cfg[k] = ""

\* C14: a run started with a required setting missing or blank goes straight
\* to its exit with main returning False: no driver was asked for, the
\* Collector and the Notifier were not called, the store was neither read nor
\* opened; from there the process only ends, with exit status 1 unless it is
\* killed first, and the store stays as it was.
C14_MissingSettingAbortsFirst ==
    [][/\ (pc = "idle" /\ pc' # "idle" /\ MissingSetting(config')) =>
              /\ pc' = "exit"
              /\ ret' = "False"
              /\ trace' = <<>>
              /\ calls' = <<>>
              /\ driver' = "none"
              /\ store' = store
       /\ (pc = "exit" /\ MissingSetting(config)) =>
              /\ pc' = "idle"
              /\ exit' \in {"1", "killed"}
              /\ store' = store]_vars

\* a run with only the portal password blank is at its exit, a store written
\* by an earlier run untouched
C14_Witness ==
    /\ pc = "exit"
    /\ config = [TELEGRAM_TOKEN |-> "x", TELEGRAM_CHAT_ID |-> "x",
                 SAKAI_USERNAME |-> "x", SAKAI_PASSWORD |-> ""]
    /\ ret = "False"
    /\ trace = <<>>
    /\ RecordsIn(store) # <<>>
    /\ store = storeAtStart

\* C15: when the process ends by itself, its exit status is 0 or 1, and it is
\* 0 exactly when no required setting was missing and no exception reached
\* the handler of main (lines 1031-1034), whatever the sends and the store
\* write did.
C15_ExitStatusZeroUnlessConfigOrHandler ==
    [][(pc = "exit" /\ pc' = "idle" /\ exit' # "killed") =>
            /\ exit' \in {"0", "1"}
            /\ exit' = "0" <=> (~MissingSetting(config) /\ raisedBy = "none")]_vars

\* main has returned True from a run whose send failed and whose store write
\* failed; no exception reached its handler
C15_Witness ==
    /\ pc = "exit"
    /\ ret = "True"
    /\ raisedBy = "none"
    /\ saved = "error"
    /\ calls # <<>>
    /\ \A k \in 1..Len(calls) : ~calls[k].ok

\* C16: once the write of save_announcements has failed, no exception has
\* reached main's handler, no error report was sent, and main returns True
\* and goes to its exit.
C16_WriteFailureIsSwallowed ==
    saved = "error" =>
        /\ raisedBy = "none"
        /\ pc \in {"finally", "exit"}
        /\ ret = "True"
        /\ Len(calls) = Len(new_announcements)

\* main has returned True after a failed write, and a record whose send
\* succeeded is not among what the next load will return
C16_Witness ==
    /\ pc = "exit"
    /\ saved = "error"
    /\ ret = "True"
    /\ \E k \in 1..Len(new_announcements) :
          /\ calls[k].ok
          /\ new_announcements[k]
                \notin Range(load_saved_announcements(store).value)

\* a stage of the Collector has failed in this run
CollectorFailed ==
    \E n \in 1..Len(trace) : trace[n] \in {"fetch failed", "panel scan failed"}

\* C17: when main has returned from a run in which a stage of the Collector
\* failed, the current list was empty, no record was sent, the store was not
\* written, main returned True, and exactly one Notifier call, the error
\* report, was made.
C17_CollectorFailureReported ==
    (pc = "exit" /\ CollectorFailed) =>
        /\ current_announcements = <<>>
        /\ sent = 0
        /\ saved = "none"
        /\ store = storeAtStart
        /\ ret = "True"
        /\ Len(calls) = 1
        /\ calls[1].title = "BOT ERROR"

\* ---------------------------------------------------- claims: the Notifier
\* C18: a call of send_telegram_notification raises nothing, and returns True
\* exactly when requests.post answered with status 200: False for every
\* other status and whenever the request raised.
C18_TrueExactlyOnStatus200 ==
    spc = "done" =>
        /\ ~sres.raised
        /\ sres.value <=> (soutcome.kind = "response"
                           /\ soutcome.status_code = 200)

\* the remote call answered 200 and the function returned True
C18_Witness ==
    /\ spc = "done"
    /\ soutcome = [kind |-> "response", status_code |-> 200]
    /\ sres = [raised |-> FALSE, value |-> TRUE]

\* ------------------------------------------- claims: order of store accesses
\* the calls of the Collector, however they ended
CollectorEvents == {"fetch", "fetch failed", "panel scan failed"}

\* C19 as stated: when main has returned, the store was read exactly once in
\* the run, before the Collector was called and before any Notifier call, and
\* was opened for writing at most once, with no Notifier call and no read
\* after that.
C19_ReadExactlyOnce ==
    pc = "exit" =>
        /\ Len(Events({"read"})) = 1
        /\ \A n \in 1..Len(trace) :
              trace[n] \in CollectorEvents \cup {"notify"} =>
                  \E m \in 1..(n - 1) : trace[m] = "read"
        /\ Len(Events({"open"})) <= 1
        /\ \A n \in 1..Len(trace) :
              trace[n] = "open" =>
                  \A m \in (n + 1)..Len(trace) : trace[m] \notin {"notify", "read"}

\* C19 amended: at every point of a run the store has been read at most once,
\* and exactly once when main returns from a run that had a driver; every
\* call of the Collector comes after the read; a read comes before every
\* Notifier call; the store has been opened for writing at most once, with no
\* Notifier call and no read after that.
C19_ReadAtMostOnceAndFirst ==
    /\ Len(Events({"read"})) <= 1
    /\ (pc = "exit" /\ driver = "quit") => Len(Events({"read"})) = 1
    /\ \A n \in 1..Len(trace) :
          trace[n] \in CollectorEvents =>
              \E m \in 1..(n - 1) : trace[m] = "read"
    /\ \A n \in 1..Len(trace) :
          trace[n] = "read" =>
              \A m \in 1..(n - 1) : trace[m] \notin CollectorEvents \cup {"notify"}
    /\ Len(Events({"open"})) <= 1
    /\ \A n \in 1..Len(trace) :
          trace[n] = "open" =>
              \A m \in (n + 1)..Len(trace) : trace[m] \notin {"notify", "read"}

\* a run that read, collected, sent twice and wrote has returned
C19_Witness ==
    /\ pc = "exit"
    /\ saved = "ok"
    /\ trace = <<"get_webdriver", "read", "fetch", "notify", "sleep",
                 "notify", "sleep", "open", "quit">>

\* ------------------------------------------- claims: records without href
\* the record has no href: the key is absent or its value is None
HrefLess(r) == Get(r, "href") = NoneVal

\* the positions of the store's records that are the given announcement
CopiesInStore(r) ==
    {n \in 1..Len(RecordsIn(store)) : SameAnnouncement(RecordsIn(store)[n], r)}

NoRepeat(current) ==
    \A i, j \in 1..Len(current) :
        (i # j /\ Get(current[i], "href") # NoneVal) =>
            Get(current[i], "href") # Get(current[j], "href")

WithHref(seq, href) == {n \in 1..Len(seq) : Get(seq[n], "href") = href}

\* two positions of current carry the same href, absent from previous
RepeatedNewHrefs ==
    {Get(current_announcements[i], "href") :
        i \in {n \in 1..Len(current_announcements) :
                 /\ Cardinality(WithHref(current_announcements,
                        Get(current_announcements[n], "href"))) >= 2
                 /\ WithHref(previous_announcements,
                        Get(current_announcements[n], "href")) = {}}}

DriverCreated ==
    /\ \E n \in 1..Len(trace) : trace[n] = "get_webdriver"
    /\ raisedBy # "get_webdriver"

\* C23: while main is still before its finally block driver.quit has not
\* been called; when main has returned from a run in which get_webdriver
\* returned a driver, driver.quit has been called exactly once, as the last
\* thing the run did; and when a required setting was missing no driver was
\* asked for and driver.quit was not called.
C23_QuitExactlyOnce ==
    /\ pc \notin {"idle", "exit"} => Events({"quit"}) = <<>>
    /\ (pc = "exit" /\ DriverCreated) =>
          /\ Events({"quit"}) = <<"quit">>
          /\ trace[Len(trace)] = "quit"
          /\ driver = "quit"
    /\ (pc = "exit" /\ ~DriverCreated) => Events({"quit"}) = <<>>
    /\ (pc = "exit" /\ MissingSetting(config)) =>
          /\ Events({"get_webdriver", "quit"}) = <<>>
          /\ driver = "none"

\* main has returned through its handler, after the sends, and the driver
\* was quit once
C23_Witness ==
    /\ pc = "exit"
    /\ DriverCreated
    /\ ret = "False"
    /\ raisedBy = "all_announcements"
    /\ sent >= 1
    /\ Events({"quit"}) = <<"quit">>

=============================================================================
